---- MODULE Spec2Model ----
(***************************************************************************)
(* Ingestion and hybrid retrieval of backend/api/main.py: the corpus       *)
(* directory, the persisted Chroma collection, the module-level            *)
(* ensemble_retriever, the start-up call of ingest_documents and the       *)
(* requests of the /chat handler, step by step between its awaits.         *)
(* A Python string is the sequence of its code points: "hi\n" is           *)
(* <<104, 105, 10>>.                                                       *)
(***************************************************************************)
EXTENDS Integers, Sequences, FiniteSets, Bags, TLC

\* dir: source_documents, each file name with what the file holds
\* store: the persisted collection of db_storage, in insertion order
\* proc: "stopped", "serving" or "crashed"
\* files, ensemble_retriever: the variables of that name in the process
\* log: the standard output of the process
\* requests: the bag of the invocations of chat in the process
\* chunk: the chunk under the tagger (SpecTagger)
VARIABLES dir, store, proc, files, log, ensemble_retriever, requests, chunk

vars == <<dir, store, proc, files, log, ensemble_retriever, requests, chunk>>

\* ---------------------------------------------------------------- bounds
\* longest first line fed to the section tagger in SpecTagger
MaxLineLen == 52

\* requests a process receives before it ends
MaxRequests == 2

\* ------------------------------------------------------- program constants
\* bm25.k = 5 and search_kwargs={"k": 5}
K == 5
\* first_line[:50]
SectionLimit == 50
\* len(first_line) > 3
TrivialLen == 3

None == <<>>

\* ------------------------------------------------------- string helpers
Min(a, b) == IF a < b THEN a ELSE b

Last(s) == s[Len(s)]

Range(s) == {s[i] : i \in 1..Len(s)}

\* x itself, computed once where it is bound
Value(x) == CHOOSE v \in {x} : TRUE

\* the element of a one-element set
The(S) == CHOOSE x \in S : TRUE

\* s[:n]
Prefix(s, n) == SubSeq(s, 1, Min(n, Len(s)))

\* sub in s
Contains(s, sub) ==
    \E i \in 1..(Len(s) - Len(sub) + 1) : SubSeq(s, i, i + Len(sub) - 1) = sub

\* s.endswith(suffix)
EndsWith(s, suffix) ==
    /\ Len(s) >= Len(suffix)
    /\ SubSeq(s, Len(s) - Len(suffix) + 1, Len(s)) = suffix

\* the code points c with chr(c).isspace()
WhiteSpace == {9, 10, 11, 12, 13, 28, 29, 30, 31, 32, 133, 160, 5760, 8192, 8193, 8194,
               8195, 8196, 8197, 8198, 8199, 8200, 8201, 8202, 8232, 8233, 8239, 8287, 12288}

\* <<first, last, step, d>>: chr(c).lower() is chr(c + d) for the code points
\* c = first, first + step, ..., last
LowerRanges == {
    <<65, 90, 1, 32>>, <<192, 214, 1, 32>>, <<216, 222, 1, 32>>, <<256, 302, 2, 1>>,
    <<306, 310, 2, 1>>, <<313, 327, 2, 1>>, <<330, 374, 2, 1>>, <<376, 376, 1, -121>>,
    <<377, 381, 2, 1>>, <<385, 385, 1, 210>>, <<386, 388, 2, 1>>, <<390, 390, 1, 206>>,
    <<391, 391, 1, 1>>, <<393, 394, 1, 205>>, <<395, 395, 1, 1>>, <<398, 398, 1, 79>>,
    <<399, 399, 1, 202>>, <<400, 400, 1, 203>>, <<401, 401, 1, 1>>, <<403, 403, 1, 205>>,
    <<404, 404, 1, 207>>, <<406, 406, 1, 211>>, <<407, 407, 1, 209>>, <<408, 408, 1, 1>>,
    <<412, 412, 1, 211>>, <<413, 413, 1, 213>>, <<415, 415, 1, 214>>, <<416, 420, 2, 1>>,
    <<422, 422, 1, 218>>, <<423, 423, 1, 1>>, <<425, 425, 1, 218>>, <<428, 428, 1, 1>>,
    <<430, 430, 1, 218>>, <<431, 431, 1, 1>>, <<433, 434, 1, 217>>, <<435, 437, 2, 1>>,
    <<439, 439, 1, 219>>, <<440, 440, 1, 1>>, <<444, 444, 1, 1>>, <<452, 452, 1, 2>>,
    <<453, 453, 1, 1>>, <<455, 455, 1, 2>>, <<456, 456, 1, 1>>, <<458, 458, 1, 2>>,
    <<459, 475, 2, 1>>, <<478, 494, 2, 1>>, <<497, 497, 1, 2>>, <<498, 500, 2, 1>>,
    <<502, 502, 1, -97>>, <<503, 503, 1, -56>>, <<504, 542, 2, 1>>, <<544, 544, 1, -130>>,
    <<546, 562, 2, 1>>, <<570, 570, 1, 10795>>, <<571, 571, 1, 1>>, <<573, 573, 1, -163>>,
    <<574, 574, 1, 10792>>, <<577, 577, 1, 1>>, <<579, 579, 1, -195>>, <<580, 580, 1, 69>>,
    <<581, 581, 1, 71>>, <<582, 590, 2, 1>>, <<880, 882, 2, 1>>, <<886, 886, 1, 1>>,
    <<895, 895, 1, 116>>, <<902, 902, 1, 38>>, <<904, 906, 1, 37>>, <<908, 908, 1, 64>>,
    <<910, 911, 1, 63>>, <<913, 929, 1, 32>>, <<931, 939, 1, 32>>, <<975, 975, 1, 8>>,
    <<984, 1006, 2, 1>>, <<1012, 1012, 1, -60>>, <<1015, 1015, 1, 1>>, <<1017, 1017, 1, -7>>,
    <<1018, 1018, 1, 1>>, <<1021, 1023, 1, -130>>, <<1024, 1039, 1, 80>>, <<1040, 1071, 1, 32>>,
    <<1120, 1152, 2, 1>>, <<1162, 1214, 2, 1>>, <<1216, 1216, 1, 15>>, <<1217, 1229, 2, 1>>,
    <<1232, 1326, 2, 1>>, <<1329, 1366, 1, 48>>, <<4256, 4293, 1, 7264>>, <<4295, 4295, 1, 7264>>,
    <<4301, 4301, 1, 7264>>, <<5024, 5103, 1, 38864>>, <<5104, 5109, 1, 8>>, <<7312, 7354, 1, -3008>>,
    <<7357, 7359, 1, -3008>>, <<7680, 7828, 2, 1>>, <<7838, 7838, 1, -7615>>, <<7840, 7934, 2, 1>>,
    <<7944, 7951, 1, -8>>, <<7960, 7965, 1, -8>>, <<7976, 7983, 1, -8>>, <<7992, 7999, 1, -8>>,
    <<8008, 8013, 1, -8>>, <<8025, 8031, 2, -8>>, <<8040, 8047, 1, -8>>, <<8072, 8079, 1, -8>>,
    <<8088, 8095, 1, -8>>, <<8104, 8111, 1, -8>>, <<8120, 8121, 1, -8>>, <<8122, 8123, 1, -74>>,
    <<8124, 8124, 1, -9>>, <<8136, 8139, 1, -86>>, <<8140, 8140, 1, -9>>, <<8152, 8153, 1, -8>>,
    <<8154, 8155, 1, -100>>, <<8168, 8169, 1, -8>>, <<8170, 8171, 1, -112>>, <<8172, 8172, 1, -7>>,
    <<8184, 8185, 1, -128>>, <<8186, 8187, 1, -126>>, <<8188, 8188, 1, -9>>, <<8486, 8486, 1, -7517>>,
    <<8490, 8490, 1, -8383>>, <<8491, 8491, 1, -8262>>, <<8498, 8498, 1, 28>>, <<8544, 8559, 1, 16>>,
    <<8579, 8579, 1, 1>>, <<9398, 9423, 1, 26>>, <<11264, 11311, 1, 48>>, <<11360, 11360, 1, 1>>,
    <<11362, 11362, 1, -10743>>, <<11363, 11363, 1, -3814>>, <<11364, 11364, 1, -10727>>, <<11367, 11371, 2, 1>>,
    <<11373, 11373, 1, -10780>>, <<11374, 11374, 1, -10749>>, <<11375, 11375, 1, -10783>>, <<11376, 11376, 1, -10782>>,
    <<11378, 11378, 1, 1>>, <<11381, 11381, 1, 1>>, <<11390, 11391, 1, -10815>>, <<11392, 11490, 2, 1>>,
    <<11499, 11501, 2, 1>>, <<11506, 11506, 1, 1>>, <<42560, 42604, 2, 1>>, <<42624, 42650, 2, 1>>,
    <<42786, 42798, 2, 1>>, <<42802, 42862, 2, 1>>, <<42873, 42875, 2, 1>>, <<42877, 42877, 1, -35332>>,
    <<42878, 42886, 2, 1>>, <<42891, 42891, 1, 1>>, <<42893, 42893, 1, -42280>>, <<42896, 42898, 2, 1>>,
    <<42902, 42920, 2, 1>>, <<42922, 42922, 1, -42308>>, <<42923, 42923, 1, -42319>>, <<42924, 42924, 1, -42315>>,
    <<42925, 42925, 1, -42305>>, <<42926, 42926, 1, -42308>>, <<42928, 42928, 1, -42258>>, <<42929, 42929, 1, -42282>>,
    <<42930, 42930, 1, -42261>>, <<42931, 42931, 1, 928>>, <<42932, 42946, 2, 1>>, <<42948, 42948, 1, -48>>,
    <<42949, 42949, 1, -42307>>, <<42950, 42950, 1, -35384>>, <<42951, 42953, 2, 1>>, <<42960, 42960, 1, 1>>,
    <<42966, 42968, 2, 1>>, <<42997, 42997, 1, 1>>, <<65313, 65338, 1, 32>>, <<66560, 66599, 1, 40>>,
    <<66736, 66771, 1, 40>>, <<66928, 66938, 1, 39>>, <<66940, 66954, 1, 39>>, <<66956, 66962, 1, 39>>,
    <<66964, 66965, 1, 39>>, <<68736, 68786, 1, 64>>, <<71840, 71871, 1, 32>>, <<93760, 93791, 1, 32>>,
    <<125184, 125217, 1, 34>> }

\* <<first, last, step>>: the code points str.lower() skips when it looks
\* for the letter beside a capital sigma (case-ignorable)
IgnorableRanges == {
    <<39, 39, 1>>, <<46, 46, 1>>, <<58, 58, 1>>, <<94, 96, 2>>, <<168, 168, 1>>,
    <<173, 175, 2>>, <<180, 180, 1>>, <<183, 184, 1>>, <<688, 879, 1>>, <<884, 885, 1>>,
    <<890, 890, 1>>, <<900, 901, 1>>, <<903, 903, 1>>, <<1155, 1161, 1>>, <<1369, 1369, 1>>,
    <<1375, 1375, 1>>, <<1425, 1469, 1>>, <<1471, 1473, 2>>, <<1474, 1476, 2>>, <<1477, 1479, 2>>,
    <<1524, 1524, 1>>, <<1536, 1541, 1>>, <<1552, 1562, 1>>, <<1564, 1564, 1>>, <<1600, 1600, 1>>,
    <<1611, 1631, 1>>, <<1648, 1648, 1>>, <<1750, 1757, 1>>, <<1759, 1768, 1>>, <<1770, 1773, 1>>,
    <<1807, 1809, 2>>, <<1840, 1866, 1>>, <<1958, 1968, 1>>, <<2027, 2037, 1>>, <<2042, 2042, 1>>,
    <<2045, 2045, 1>>, <<2070, 2093, 1>>, <<2137, 2139, 1>>, <<2184, 2184, 1>>, <<2192, 2193, 1>>,
    <<2200, 2207, 1>>, <<2249, 2306, 1>>, <<2362, 2364, 2>>, <<2369, 2376, 1>>, <<2381, 2381, 1>>,
    <<2385, 2391, 1>>, <<2402, 2403, 1>>, <<2417, 2417, 1>>, <<2433, 2433, 1>>, <<2492, 2492, 1>>,
    <<2497, 2500, 1>>, <<2509, 2509, 1>>, <<2530, 2531, 1>>, <<2558, 2558, 1>>, <<2561, 2562, 1>>,
    <<2620, 2620, 1>>, <<2625, 2626, 1>>, <<2631, 2632, 1>>, <<2635, 2637, 1>>, <<2641, 2641, 1>>,
    <<2672, 2673, 1>>, <<2677, 2677, 1>>, <<2689, 2690, 1>>, <<2748, 2748, 1>>, <<2753, 2757, 1>>,
    <<2759, 2760, 1>>, <<2765, 2765, 1>>, <<2786, 2787, 1>>, <<2810, 2815, 1>>, <<2817, 2817, 1>>,
    <<2876, 2876, 1>>, <<2879, 2881, 2>>, <<2882, 2884, 1>>, <<2893, 2893, 1>>, <<2901, 2902, 1>>,
    <<2914, 2915, 1>>, <<2946, 2946, 1>>, <<3008, 3008, 1>>, <<3021, 3021, 1>>, <<3072, 3072, 1>>,
    <<3076, 3076, 1>>, <<3132, 3134, 2>>, <<3135, 3136, 1>>, <<3142, 3144, 1>>, <<3146, 3149, 1>>,
    <<3157, 3158, 1>>, <<3170, 3171, 1>>, <<3201, 3201, 1>>, <<3260, 3260, 1>>, <<3263, 3263, 1>>,
    <<3270, 3270, 1>>, <<3276, 3277, 1>>, <<3298, 3299, 1>>, <<3328, 3329, 1>>, <<3387, 3388, 1>>,
    <<3393, 3396, 1>>, <<3405, 3405, 1>>, <<3426, 3427, 1>>, <<3457, 3457, 1>>, <<3530, 3530, 1>>,
    <<3538, 3540, 1>>, <<3542, 3542, 1>>, <<3633, 3633, 1>>, <<3636, 3642, 1>>, <<3654, 3662, 1>>,
    <<3761, 3761, 1>>, <<3764, 3772, 1>>, <<3782, 3784, 2>>, <<3785, 3789, 1>>, <<3864, 3865, 1>>,
    <<3893, 3897, 2>>, <<3953, 3966, 1>>, <<3968, 3972, 1>>, <<3974, 3975, 1>>, <<3981, 3991, 1>>,
    <<3993, 4028, 1>>, <<4038, 4038, 1>>, <<4141, 4144, 1>>, <<4146, 4151, 1>>, <<4153, 4154, 1>>,
    <<4157, 4158, 1>>, <<4184, 4185, 1>>, <<4190, 4192, 1>>, <<4209, 4212, 1>>, <<4226, 4226, 1>>,
    <<4229, 4230, 1>>, <<4237, 4237, 1>>, <<4253, 4253, 1>>, <<4348, 4348, 1>>, <<4957, 4959, 1>>,
    <<5906, 5908, 1>>, <<5938, 5939, 1>>, <<5970, 5971, 1>>, <<6002, 6003, 1>>, <<6068, 6069, 1>>,
    <<6071, 6077, 1>>, <<6086, 6086, 1>>, <<6089, 6099, 1>>, <<6103, 6103, 1>>, <<6109, 6109, 1>>,
    <<6155, 6159, 1>>, <<6211, 6211, 1>>, <<6277, 6278, 1>>, <<6313, 6313, 1>>, <<6432, 6434, 1>>,
    <<6439, 6440, 1>>, <<6450, 6450, 1>>, <<6457, 6459, 1>>, <<6679, 6680, 1>>, <<6683, 6683, 1>>,
    <<6742, 6744, 2>>, <<6745, 6750, 1>>, <<6752, 6754, 2>>, <<6757, 6764, 1>>, <<6771, 6780, 1>>,
    <<6783, 6783, 1>>, <<6823, 6823, 1>>, <<6832, 6862, 1>>, <<6912, 6915, 1>>, <<6964, 6966, 2>>,
    <<6967, 6970, 1>>, <<6972, 6972, 1>>, <<6978, 6978, 1>>, <<7019, 7027, 1>>, <<7040, 7041, 1>>,
    <<7074, 7077, 1>>, <<7080, 7081, 1>>, <<7083, 7085, 1>>, <<7142, 7144, 2>>, <<7145, 7145, 1>>,
    <<7149, 7151, 2>>, <<7152, 7153, 1>>, <<7212, 7219, 1>>, <<7222, 7223, 1>>, <<7288, 7293, 1>>,
    <<7376, 7378, 1>>, <<7380, 7392, 1>>, <<7394, 7400, 1>>, <<7405, 7405, 1>>, <<7412, 7412, 1>>,
    <<7416, 7417, 1>>, <<7468, 7530, 1>>, <<7544, 7544, 1>>, <<7579, 7679, 1>>, <<8125, 8127, 2>>,
    <<8128, 8129, 1>>, <<8141, 8143, 1>>, <<8157, 8159, 1>>, <<8173, 8175, 1>>, <<8189, 8190, 1>>,
    <<8203, 8207, 1>>, <<8216, 8217, 1>>, <<8228, 8228, 1>>, <<8231, 8231, 1>>, <<8234, 8238, 1>>,
    <<8288, 8292, 1>>, <<8294, 8303, 1>>, <<8305, 8305, 1>>, <<8319, 8319, 1>>, <<8336, 8348, 1>>,
    <<8400, 8432, 1>>, <<11388, 11389, 1>>, <<11503, 11505, 1>>, <<11631, 11631, 1>>, <<11647, 11647, 1>>,
    <<11744, 11775, 1>>, <<11823, 11823, 1>>, <<12293, 12293, 1>>, <<12330, 12333, 1>>, <<12337, 12341, 1>>,
    <<12347, 12347, 1>>, <<12441, 12446, 1>>, <<12540, 12542, 1>>, <<40981, 40981, 1>>, <<42232, 42237, 1>>,
    <<42508, 42508, 1>>, <<42607, 42610, 1>>, <<42612, 42621, 1>>, <<42623, 42623, 1>>, <<42652, 42655, 1>>,
    <<42736, 42737, 1>>, <<42752, 42785, 1>>, <<42864, 42864, 1>>, <<42888, 42890, 1>>, <<42994, 42996, 1>>,
    <<43000, 43001, 1>>, <<43010, 43010, 1>>, <<43014, 43014, 1>>, <<43019, 43019, 1>>, <<43045, 43046, 1>>,
    <<43052, 43052, 1>>, <<43204, 43205, 1>>, <<43232, 43249, 1>>, <<43263, 43263, 1>>, <<43302, 43309, 1>>,
    <<43335, 43345, 1>>, <<43392, 43394, 1>>, <<43443, 43443, 1>>, <<43446, 43449, 1>>, <<43452, 43453, 1>>,
    <<43471, 43471, 1>>, <<43493, 43494, 1>>, <<43561, 43566, 1>>, <<43569, 43570, 1>>, <<43573, 43574, 1>>,
    <<43587, 43587, 1>>, <<43596, 43596, 1>>, <<43632, 43632, 1>>, <<43644, 43644, 1>>, <<43696, 43698, 2>>,
    <<43699, 43700, 1>>, <<43703, 43704, 1>>, <<43710, 43711, 1>>, <<43713, 43713, 1>>, <<43741, 43741, 1>>,
    <<43756, 43757, 1>>, <<43763, 43764, 1>>, <<43766, 43766, 1>>, <<43867, 43871, 1>>, <<43881, 43883, 1>>,
    <<44005, 44005, 1>>, <<44008, 44008, 1>>, <<44013, 44013, 1>>, <<64286, 64286, 1>>, <<64434, 64450, 1>>,
    <<65024, 65039, 1>>, <<65043, 65043, 1>>, <<65056, 65071, 1>>, <<65106, 65106, 1>>, <<65109, 65109, 1>>,
    <<65279, 65279, 1>>, <<65287, 65287, 1>>, <<65294, 65294, 1>>, <<65306, 65306, 1>>, <<65342, 65344, 2>>,
    <<65392, 65392, 1>>, <<65438, 65439, 1>>, <<65507, 65507, 1>>, <<65529, 65531, 1>>, <<66045, 66045, 1>>,
    <<66272, 66272, 1>>, <<66422, 66426, 1>>, <<67456, 67461, 1>>, <<67463, 67504, 1>>, <<67506, 67514, 1>>,
    <<68097, 68099, 1>>, <<68101, 68102, 1>>, <<68108, 68111, 1>>, <<68152, 68154, 1>>, <<68159, 68159, 1>>,
    <<68325, 68326, 1>>, <<68900, 68903, 1>>, <<69291, 69292, 1>>, <<69446, 69456, 1>>, <<69506, 69509, 1>>,
    <<69633, 69633, 1>>, <<69688, 69702, 1>>, <<69744, 69744, 1>>, <<69747, 69748, 1>>, <<69759, 69761, 1>>,
    <<69811, 69814, 1>>, <<69817, 69818, 1>>, <<69821, 69821, 1>>, <<69826, 69826, 1>>, <<69837, 69837, 1>>,
    <<69888, 69890, 1>>, <<69927, 69931, 1>>, <<69933, 69940, 1>>, <<70003, 70003, 1>>, <<70016, 70017, 1>>,
    <<70070, 70078, 1>>, <<70089, 70092, 1>>, <<70095, 70095, 1>>, <<70191, 70193, 1>>, <<70196, 70198, 2>>,
    <<70199, 70199, 1>>, <<70206, 70206, 1>>, <<70367, 70367, 1>>, <<70371, 70378, 1>>, <<70400, 70401, 1>>,
    <<70459, 70460, 1>>, <<70464, 70464, 1>>, <<70502, 70508, 1>>, <<70512, 70516, 1>>, <<70712, 70719, 1>>,
    <<70722, 70724, 1>>, <<70726, 70726, 1>>, <<70750, 70750, 1>>, <<70835, 70840, 1>>, <<70842, 70842, 1>>,
    <<70847, 70848, 1>>, <<70850, 70851, 1>>, <<71090, 71093, 1>>, <<71100, 71101, 1>>, <<71103, 71104, 1>>,
    <<71132, 71133, 1>>, <<71219, 71226, 1>>, <<71229, 71231, 2>>, <<71232, 71232, 1>>, <<71339, 71341, 2>>,
    <<71344, 71349, 1>>, <<71351, 71351, 1>>, <<71453, 71455, 1>>, <<71458, 71461, 1>>, <<71463, 71467, 1>>,
    <<71727, 71735, 1>>, <<71737, 71738, 1>>, <<71995, 71996, 1>>, <<71998, 71998, 1>>, <<72003, 72003, 1>>,
    <<72148, 72151, 1>>, <<72154, 72155, 1>>, <<72160, 72160, 1>>, <<72193, 72202, 1>>, <<72243, 72248, 1>>,
    <<72251, 72254, 1>>, <<72263, 72263, 1>>, <<72273, 72278, 1>>, <<72281, 72283, 1>>, <<72330, 72342, 1>>,
    <<72344, 72345, 1>>, <<72752, 72758, 1>>, <<72760, 72765, 1>>, <<72767, 72767, 1>>, <<72850, 72871, 1>>,
    <<72874, 72880, 1>>, <<72882, 72883, 1>>, <<72885, 72886, 1>>, <<73009, 73014, 1>>, <<73018, 73020, 2>>,
    <<73021, 73023, 2>>, <<73024, 73029, 1>>, <<73031, 73031, 1>>, <<73104, 73105, 1>>, <<73109, 73111, 2>>,
    <<73459, 73460, 1>>, <<78896, 78904, 1>>, <<92912, 92916, 1>>, <<92976, 92982, 1>>, <<92992, 92995, 1>>,
    <<94031, 94031, 1>>, <<94095, 94111, 1>>, <<94176, 94177, 1>>, <<94179, 94180, 1>>, <<110576, 110579, 1>>,
    <<110581, 110587, 1>>, <<110589, 110590, 1>>, <<113821, 113822, 1>>, <<113824, 113827, 1>>, <<118528, 118573, 1>>,
    <<118576, 118598, 1>>, <<119143, 119145, 1>>, <<119155, 119170, 1>>, <<119173, 119179, 1>>, <<119210, 119213, 1>>,
    <<119362, 119364, 1>>, <<121344, 121398, 1>>, <<121403, 121452, 1>>, <<121461, 121461, 1>>, <<121476, 121476, 1>>,
    <<121499, 121503, 1>>, <<121505, 121519, 1>>, <<122880, 122886, 1>>, <<122888, 122904, 1>>, <<122907, 122913, 1>>,
    <<122915, 122916, 1>>, <<122918, 122922, 1>>, <<123184, 123197, 1>>, <<123566, 123566, 1>>, <<123628, 123631, 1>>,
    <<125136, 125142, 1>>, <<125252, 125259, 1>>, <<127995, 127999, 1>>, <<917505, 917505, 1>>, <<917536, 917631, 1>>,
    <<917760, 917999, 1>> }

\* <<first, last, step>>: the cased code points that are not case-ignorable
CasedRanges == {
    <<65, 90, 1>>, <<97, 122, 1>>, <<170, 170, 1>>, <<181, 181, 1>>, <<186, 186, 1>>,
    <<192, 214, 1>>, <<216, 246, 1>>, <<248, 442, 1>>, <<444, 447, 1>>, <<452, 659, 1>>,
    <<661, 687, 1>>, <<880, 883, 1>>, <<886, 887, 1>>, <<891, 893, 1>>, <<895, 895, 1>>,
    <<902, 904, 2>>, <<905, 906, 1>>, <<908, 910, 2>>, <<911, 929, 1>>, <<931, 1013, 1>>,
    <<1015, 1153, 1>>, <<1162, 1327, 1>>, <<1329, 1366, 1>>, <<1376, 1416, 1>>, <<4256, 4293, 1>>,
    <<4295, 4295, 1>>, <<4301, 4301, 1>>, <<4304, 4346, 1>>, <<4349, 4351, 1>>, <<5024, 5109, 1>>,
    <<5112, 5117, 1>>, <<7296, 7304, 1>>, <<7312, 7354, 1>>, <<7357, 7359, 1>>, <<7424, 7467, 1>>,
    <<7531, 7543, 1>>, <<7545, 7578, 1>>, <<7680, 7957, 1>>, <<7960, 7965, 1>>, <<7968, 8005, 1>>,
    <<8008, 8013, 1>>, <<8016, 8023, 1>>, <<8025, 8031, 2>>, <<8032, 8061, 1>>, <<8064, 8116, 1>>,
    <<8118, 8124, 1>>, <<8126, 8126, 1>>, <<8130, 8132, 1>>, <<8134, 8140, 1>>, <<8144, 8147, 1>>,
    <<8150, 8155, 1>>, <<8160, 8172, 1>>, <<8178, 8180, 1>>, <<8182, 8188, 1>>, <<8450, 8450, 1>>,
    <<8455, 8455, 1>>, <<8458, 8467, 1>>, <<8469, 8469, 1>>, <<8473, 8477, 1>>, <<8484, 8490, 2>>,
    <<8491, 8493, 1>>, <<8495, 8500, 1>>, <<8505, 8505, 1>>, <<8508, 8511, 1>>, <<8517, 8521, 1>>,
    <<8526, 8526, 1>>, <<8544, 8575, 1>>, <<8579, 8580, 1>>, <<9398, 9449, 1>>, <<11264, 11387, 1>>,
    <<11390, 11492, 1>>, <<11499, 11502, 1>>, <<11506, 11507, 1>>, <<11520, 11557, 1>>, <<11559, 11559, 1>>,
    <<11565, 11565, 1>>, <<42560, 42605, 1>>, <<42624, 42651, 1>>, <<42786, 42863, 1>>, <<42865, 42887, 1>>,
    <<42891, 42894, 1>>, <<42896, 42954, 1>>, <<42960, 42961, 1>>, <<42963, 42965, 2>>, <<42966, 42969, 1>>,
    <<42997, 42998, 1>>, <<43002, 43002, 1>>, <<43824, 43866, 1>>, <<43872, 43880, 1>>, <<43888, 43967, 1>>,
    <<64256, 64262, 1>>, <<64275, 64279, 1>>, <<65313, 65338, 1>>, <<65345, 65370, 1>>, <<66560, 66639, 1>>,
    <<66736, 66771, 1>>, <<66776, 66811, 1>>, <<66928, 66938, 1>>, <<66940, 66954, 1>>, <<66956, 66962, 1>>,
    <<66964, 66965, 1>>, <<66967, 66977, 1>>, <<66979, 66993, 1>>, <<66995, 67001, 1>>, <<67003, 67004, 1>>,
    <<68736, 68786, 1>>, <<68800, 68850, 1>>, <<71840, 71903, 1>>, <<93760, 93823, 1>>, <<119808, 119892, 1>>,
    <<119894, 119964, 1>>, <<119966, 119967, 1>>, <<119970, 119970, 1>>, <<119973, 119974, 1>>, <<119977, 119980, 1>>,
    <<119982, 119993, 1>>, <<119995, 119997, 2>>, <<119998, 120003, 1>>, <<120005, 120069, 1>>, <<120071, 120074, 1>>,
    <<120077, 120084, 1>>, <<120086, 120092, 1>>, <<120094, 120121, 1>>, <<120123, 120126, 1>>, <<120128, 120132, 1>>,
    <<120134, 120134, 1>>, <<120138, 120144, 1>>, <<120146, 120485, 1>>, <<120488, 120512, 1>>, <<120514, 120538, 1>>,
    <<120540, 120570, 1>>, <<120572, 120596, 1>>, <<120598, 120628, 1>>, <<120630, 120654, 1>>, <<120656, 120686, 1>>,
    <<120688, 120712, 1>>, <<120714, 120744, 1>>, <<120746, 120770, 1>>, <<120772, 120779, 1>>, <<122624, 122633, 1>>,
    <<122635, 122654, 1>>, <<125184, 125251, 1>>, <<127280, 127305, 1>>, <<127312, 127337, 1>>, <<127344, 127369, 1>> }

InRanges(c, table) ==
    \E r \in table : r[1] <= c /\ c <= r[2] /\ (c - r[1]) % r[3] = 0

\* chr(c).isspace(): what str.strip() removes and str.split() splits at
IsSpace(c) == c \in WhiteSpace

\* the one-to-one lower-case mapping of a code point
LowerChar(c) ==
    IF c < 128 THEN (IF c >= 65 /\ c <= 90 THEN c + 32 ELSE c)
    ELSE IF \E r \in LowerRanges : r[1] <= c /\ c <= r[2] /\ (c - r[1]) % r[3] = 0
    THEN c + (CHOOSE r \in LowerRanges :
                 r[1] <= c /\ c <= r[2] /\ (c - r[1]) % r[3] = 0)[4]
    ELSE c

CapitalSigma == 931
DottedCapitalI == 304

IsCaseIgnorable(c) == InRanges(c, IgnorableRanges)

\* asked of code points that are not case-ignorable only
IsCased(c) == InRanges(c, CasedRanges)

\* the capital sigma at s[i] ends a word: a cased letter before it, none
\* after it, case-ignorable code points skipped on both sides
FinalSigma(s, i) ==
    LET before == {j \in 1..(i - 1) : ~IsCaseIgnorable(s[j])}
        after  == {j \in (i + 1)..Len(s) : ~IsCaseIgnorable(s[j])}
    IN  /\ before # {}
        /\ IsCased(s[CHOOSE j \in before : \A m \in before : m <= j])
        /\ \/ after = {}
           \/ ~IsCased(s[CHOOSE j \in after : \A m \in after : j <= m])

\* what s[i] becomes in s.lower()
LowerAt(s, i) ==
    IF s[i] = CapitalSigma THEN <<IF FinalSigma(s, i) THEN 962 ELSE 963>>
    ELSE IF s[i] = DottedCapitalI THEN <<105, 775>>
    ELSE <<LowerChar(s[i])>>

RECURSIVE Concat(_, _)
Concat(f, n) == IF n = 0 THEN <<>> ELSE Concat(f, n - 1) \o f[n]

\* s.lower()
Lower(s) ==
    IF \A i \in 1..Len(s) : s[i] # DottedCapitalI
    THEN [i \in 1..Len(s) |-> LowerAt(s, i)[1]]
    ELSE Concat([i \in 1..Len(s) |-> LowerAt(s, i)], Len(s))

\* s.strip()
Strip(s) ==
    LET keep == {i \in 1..Len(s) : ~IsSpace(s[i])}
    IN  IF keep = {} THEN <<>>
        ELSE LET lo == CHOOSE i \in keep : \A j \in keep : i <= j
                 hi == CHOOSE i \in keep : \A j \in keep : j <= i
             IN  SubSeq(s, lo, hi)

\* s.replace("\n", " ")
ReplaceNewlines(s) ==
    [i \in 1..Len(s) |-> IF s[i] = 10 THEN 32 ELSE s[i]]

\* s.split('\n')[0]
FirstLine(s) ==
    LET nl == {i \in 1..Len(s) : s[i] = 10}
    IN  IF nl = {} THEN s
        ELSE SubSeq(s, 1, (CHOOSE i \in nl : \A j \in nl : i <= j) - 1)

\* s.split(): the words of s between white space, in order
RECURSIVE Split(_)
Split(s) ==
    IF s = <<>> THEN <<>>
    ELSE IF IsSpace(Head(s)) THEN Split(Tail(s))
    ELSE LET sp  == {i \in 1..Len(s) : IsSpace(s[i])}
             end == IF sp = {} THEN Len(s) + 1
                    ELSE CHOOSE i \in sp : \A j \in sp : i <= j
         IN  <<SubSeq(s, 1, end - 1)>> \o Split(SubSeq(s, end, Len(s)))

\* the number of times the word w occurs in text.split()
Occurrences(text, w) ==
    Cardinality({i \in 1..(Len(text) - Len(w) + 1) :
        /\ i = 1 \/ IsSpace(text[i - 1])
        /\ SubSeq(text, i, i + Len(w) - 1) = w
        /\ i + Len(w) > Len(text) \/ IsSpace(text[i + Len(w)])})

RECURSIVE SumSeq(_)
SumSeq(s) == IF s = <<>> THEN 0 ELSE Head(s) + SumSeq(Tail(s))

\* ------------------------------------------------------- documents
\* langchain Document(page_content, metadata); metadata is a dict
Doc(text, meta) == [page_content |-> text, metadata |-> meta]

EmptyMeta == [k \in {} |-> None]

\* dict.get(key, default)
Get(m, key, default) == IF key \in DOMAIN m THEN m[key] ELSE default

\* ------------------------------------------------------- the corpus
HrPdf    == <<104, 114, 46, 112, 100, 102>>
ItPdf    == <<105, 116, 46, 112, 100, 102>>
NotesTxt == <<110, 111, 116, 101, 115, 46, 116, 120, 116>>

\* every name that may appear in SOURCE_DOCS_PATH
Names == {HrPdf, ItPdf, NotesTxt}

\* what a file of the directory holds, as PyMuPDFLoader(file_path).load()
\* and the splitter find it: chunks, no chunk at all (pages without text),
\* or nothing that can be parsed
Contents == {"chunks", "blank", "corrupt"}

\* what a file of that name may hold
Holds(filename) == IF filename = NotesTxt THEN {"corrupt"} ELSE Contents

\* a first line of 60 characters and one of exactly 50
Line60 == <<73, 110, 102, 111, 114, 109, 97, 116, 105, 111, 110, 32, 83, 101, 99, 117, 114, 105, 116, 121, 32, 97, 110, 100, 32, 65, 99, 99, 101, 112, 116, 97, 98, 108, 101, 32, 85, 115, 101, 32, 80, 111, 108, 105, 99, 121, 32, 72, 97, 110, 100, 98, 111, 111, 107, 32, 50, 48, 50, 52>>
Line50 == <<82, 101, 109, 111, 116, 101, 32, 65, 99, 99, 101, 115, 115, 32, 97, 110, 100, 32, 86, 105, 114, 116, 117, 97, 108, 32, 80, 114, 105, 118, 97, 116, 101, 32, 78, 101, 116, 119, 111, 114, 107, 32, 83, 116, 97, 110, 100, 97, 114, 100>>

\* char_splitter.split_documents(loader.load()): the chunks of a readable
\* file, each with the 0-based page the loader assigned
RawChunks(filename) ==
    IF filename = HrPdf THEN
        << Doc(<<76, 101, 97, 118, 101, 32, 80, 111, 108, 105, 99, 121, 10, 50, 48, 32, 100, 97, 121, 115, 32, 108, 101, 97, 118, 101, 32, 112, 111, 108, 105, 99, 121>>, [page |-> 0]),
           Doc(<<72, 82, 10, 104, 114, 32, 112, 111, 108, 105, 99, 121>>, [page |-> 0]),
           Doc(<<83, 105, 99, 107, 32, 108, 101, 97, 118, 101, 32, 112, 111, 108, 105, 99, 121>>, [page |-> 1]) >>
    ELSE IF filename = ItPdf THEN
        << Doc(Line60 \o <<10, 118, 112, 110, 32, 112, 111, 108, 105, 99, 121>>, [page |-> 0]),
           Doc(Line50 \o <<10, 112, 111, 108, 105, 99, 121>>, [page |-> 1]),
           Doc(<<86, 80, 78>>, [page |-> 2]) >>
    ELSE <<>>

\* ------------------------------------------------------- stdout of the process
Ev(text, line, arg) == [ev |-> text, line |-> line, file |-> arg]

Printed(text) == \E i \in 1..Len(log) : log[i].ev = text

\* ------------------------------------------------------- 4. data ingestion
GeneralSection == <<71, 101, 110, 101, 114, 97, 108, 32, 83, 101, 99, 116, 105, 111, 110>>

\* section_name = first_line[:50] if len(first_line) > 3 else "General Section"
section_name(first_line) ==
    IF Len(first_line) > TrivialLen
    THEN Prefix(first_line, SectionLimit)
    ELSE GeneralSection

\* the body of "for chunk in chunks"
TagChunk(c, filename) ==
    Doc(c.page_content,
        [source  |-> filename,
         page    |-> c.metadata.page,
         section |-> section_name(FirstLine(c.page_content))])

\* what one pass of the loop meets at the files of its listing: gone, the
\* files taken out of the directory after the listing; mute, the files whose
\* print at line 95 raises
Meets(fs) == [gone : SUBSET Range(fs), mute : SUBSET Range(fs)]

\* every file is there and prints
Calm == [gone |-> {}, mute |-> {}]

\* the try block of one file raises: its print at line 95 does, or its load
\* does, because the file is gone or cannot be parsed
LoadFails(filename, io) ==
    \/ filename \in io.mute
    \/ filename \in io.gone
    \/ dir[filename] = "corrupt"

\* the try block for one file: what it hands to all_chunks.extend
ReadFile(filename, io) ==
    IF LoadFails(filename, io) \/ dir[filename] = "blank" THEN <<>>
    ELSE [i \in 1..Len(RawChunks(filename)) |->
             TagChunk(RawChunks(filename)[i], filename)]

\* what the try block prints for one file before its except branch
ReadingLog(filename, io) ==
    IF filename \in io.mute THEN <<>> ELSE <<Ev("Reading", 95, filename)>>

\* what the try/except prints for one file
ReadLog(filename, io) ==
    ReadingLog(filename, io) \o
    (IF LoadFails(filename, io)
     THEN <<Ev("Error reading", 109, filename)>> ELSE <<>>)

\* "for filename in files": all_chunks after the loop
RECURSIVE all_chunks(_, _)
all_chunks(fs, io) ==
    IF fs = <<>> THEN <<>>
    ELSE ReadFile(Head(fs), io) \o all_chunks(Tail(fs), io)

RECURSIVE IndexingLog(_, _)
IndexingLog(fs, io) ==
    IF fs = <<>> THEN <<>>
    ELSE ReadLog(Head(fs), io) \o IndexingLog(Tail(fs), io)

\* the output of the loop when the print of the except branch raises at
\* filename, a file of fs whose try block raised: the files before it are
\* done, failures and their error lines included, and the exception leaves
\* the loop at line 109
RECURSIVE ErrorPrintLog(_, _, _)
ErrorPrintLog(fs, io, filename) ==
    IF Head(fs) = filename THEN ReadingLog(filename, io)
    ELSE ReadLog(Head(fs), io) \o ErrorPrintLog(Tail(fs), io, filename)

\* os.listdir(SOURCE_DOCS_PATH): the names d in an arbitrary order
RECURSIVE ListDir(_)
ListDir(d) ==
    IF d = {} THEN {<<>>}
    ELSE UNION {{<<f>> \o s : s \in ListDir(d \ {f})} : f \in d}

DotPdf == <<46, 112, 100, 102>>

\* [f for f in listing if f.endswith(".pdf")]
PdfFiles(listing) == SelectSeq(listing, LAMBDA f : EndsWith(f, DotPdf))

\* what the listing may leave in files
Scans(d) == {PdfFiles(listing) : listing \in ListDir(d)}

\* a scan that never takes the early return
NoFilesNever(fs) == FALSE

\* if not files
NoFiles(fs) == fs = <<>>

\* vectorstore._collection.count()
Count(vs) == Len(vs)

\* a guard that re-indexes on every start
NeedsIndexingAlways(vs) == TRUE

\* if vectorstore._collection.count() == 0
NeedsIndexing(vs) == Count(vs) = 0

\* the words the embedding stand-in distinguishes
Vocab == <<<<108, 101, 97, 118, 101>>, <<100, 97, 121, 115>>, <<112, 111, 108, 105, 99, 121>>, <<118, 112, 110>>, <<104, 114>>>>

\* OllamaEmbeddings(model="nomic-embed-text"): a deterministic fixed-length
\* vector per text; the stand-in counts the vocabulary words of the text
Embed(text) ==
    LET t == Value(Lower(text))
    IN  [i \in 1..Len(Vocab) |-> Occurrences(t, Vocab[i])]

\* what the collection keeps of one chunk: vector, text and metadata
Entry(c) ==
    [page_content |-> c.page_content, metadata |-> c.metadata,
     embedding |-> Embed(c.page_content)]

\* vectorstore.add_documents(all_chunks): one call for the whole corpus,
\* with no handler and nothing undone after it; written is the number of
\* chunks the collection holds of it when the call ends: all of them when
\* it returns, any number of them when it raises
AddDocuments(vs, chunks, written) ==
    vs \o [i \in 1..written |-> Entry(chunks[i])]

\* a read-back capped at the first K entries
GetDocumentsLimited(vs) == [i \in 1..Min(K, Len(vs)) |-> vs[i].page_content]

\* vectorstore.get()['documents']
GetDocuments(vs) == [i \in 1..Len(vs) |-> vs[i].page_content]

\* ------------------------------------------------------- BM25Okapi
\* k1 = 1.5, b = 0.75 and epsilon = 0.25 are written into the integer
\* arithmetic below; logarithms and quotients are fixed-point
LnScale == 10000
RScale == 10000

\* LnTable[m] is ln(m) * LnScale, rounded
LnTable == <<
    0, 6931, 10986, 13863, 16094, 17918, 19459, 20794, 21972, 23026, 23979, 24849,
    25649, 26391, 27081, 27726, 28332, 28904, 29444, 29957, 30445, 30910, 31355, 31781,
    32189, 32581, 32958, 33322, 33673, 34012, 34340, 34657, 34965, 35264, 35553, 35835,
    36109, 36376, 36636, 36889, 37136, 37377, 37612, 37842, 38067, 38286, 38501, 38712,
    38918, 39120, 39318, 39512, 39703, 39890, 40073, 40254, 40431, 40604, 40775, 40943,
    41109, 41271, 41431, 41589 >>

\* ln(N - n + 0.5) - ln(n + 0.5), times LnScale
RawIdf(N, n) == LnTable[2 * (N - n) + 1] - LnTable[2 * n + 1]

\* no text has a word: BM25Okapi divides by the size of its vocabulary
NoToken(texts) == \A i \in 1..Len(texts) : Split(texts[i]) = <<>>

\* BM25Okapi(texts.split()): document lengths and the idf of every word; a
\* negative idf is replaced by epsilon times the average idf
Bm25Okapi(texts) ==
    LET N      == Len(texts)
        corpus == Value([i \in 1..N |-> Split(texts[i])])
        vocab  == Value(UNION {Range(corpus[i]) : i \in 1..N})
        nd     == Value([w \in vocab |->
                      Cardinality({i \in 1..N : w \in Range(corpus[i])})])
        sum    == SumSeq([n \in 1..N |->
                      Cardinality({w \in vocab : nd[w] = n}) * RawIdf(N, n)])
        eps    == Value((sum \div Cardinality(vocab)) \div 4)
    IN  [corpus_size |-> N,
         doc_len     |-> [i \in 1..N |-> Len(corpus[i])],
         total       |-> SumSeq([i \in 1..N |-> Len(corpus[i])]),
         idf         |-> [w \in vocab |->
                            IF RawIdf(N, nd[w]) < 0 THEN eps ELSE RawIdf(N, nd[w])]]

\* BM25Retriever.from_texts(all_docs): bare texts, no metadatas argument
FromTexts(texts) ==
    [docs       |-> [i \in 1..Len(texts) |-> Doc(texts[i], EmptyMeta)],
     vectorizer |-> Bm25Okapi(texts),
     k          |-> K]

\* a readiness test on the chunks of this pass
HasDocsFresh(docs, chunks) == chunks # <<>>

\* if all_docs
HasDocs(docs, chunks) == docs # <<>>

\* the object assigned to ensemble_retriever: bm25 holds its own documents,
\* chroma reads the collection
UniversalRetriever(texts) == [bm25 |-> FromTexts(texts), k |-> K]

\* ingest_documents() with files = fs and io met by its loop: the outcomes
\* of the run in which fault is the call that raises ("none": no call does,
\* the function returns); no outcome where that call is not made. The print
\* of line 109 may raise at any file whose try block raised, add_documents
\* after any number of chunks
Ingest(fs, io, fault) ==
    LET start    == <<Ev("Loading Documents", 77, <<>>)>>
        indexing == NeedsIndexing(store)
        chunks   == IF indexing THEN all_chunks(fs, io) ELSE <<>>
        idxlog   == IF indexing
                    THEN <<Ev("Indexing Documents", 88, <<>>)>> \o
                         IndexingLog(fs, io)
                    ELSE <<>>
        stored   == IF chunks # <<>>
                    THEN AddDocuments(store, chunks, Len(chunks))
                    ELSE store
        all_docs == GetDocuments(stored)
        balance  == <<Ev("Balancing Search Engine", 116, <<>>)>>
        Out(raised, files_, store_, retriever, log_) ==
            [raised |-> raised, files |-> files_, store |-> store_,
             retriever |-> retriever, log |-> log_]
        Raise(files_, store_, log_, line) ==
            Out(TRUE, files_, store_, None,
                log_ \o <<Ev("Traceback", line, <<>>)>>)
        If(made, outcome) == IF made THEN {outcome} ELSE {}
    IN  IF fault = "print(77)" THEN
            {Raise(<<>>, store, <<>>, 77)}
        ELSE IF fault = "listdir" THEN
            {Raise(<<>>, store, start, 78)}
        ELSE IF NoFiles(fs) THEN
            IF fault = "print(81)" THEN {Raise(fs, store, start, 81)}
            ELSE If(fault = "none",
                    Out(FALSE, fs, store, None,
                        start \o <<Ev("No PDFs found", 81, <<>>)>>))
        ELSE IF fault = "OllamaEmbeddings" THEN
            {Raise(fs, store, start, 84)}
        ELSE IF fault = "Chroma" THEN
            {Raise(fs, store, start, 85)}
        ELSE IF fault = "count" THEN
            {Raise(fs, store, start, 87)}
        ELSE IF fault = "print(88)" THEN
            If(indexing, Raise(fs, store, start, 88))
        ELSE IF fault = "print(109)" THEN
            IF ~indexing THEN {}
            ELSE {Raise(fs, store,
                        start \o <<Ev("Indexing Documents", 88, <<>>)>> \o
                            ErrorPrintLog(fs, io, filename),
                        109) :
                     filename \in {f \in Range(fs) : LoadFails(f, io)}}
        ELSE IF fault = "add_documents" THEN
            IF chunks = <<>> THEN {}
            ELSE {Raise(fs, AddDocuments(store, chunks, written),
                        start \o idxlog, 112) :
                     written \in 0..Len(chunks)}
        ELSE IF fault = "get" THEN
            {Raise(fs, stored, start \o idxlog, 114)}
        ELSE IF ~HasDocs(all_docs, chunks) THEN
            If(fault = "none", Out(FALSE, fs, stored, None, start \o idxlog))
        ELSE IF fault = "print(116)" THEN
            {Raise(fs, stored, start \o idxlog, 116)}
        ELSE IF fault = "from_texts" \/ NoToken(all_docs) THEN
            {Raise(fs, stored, start \o idxlog \o balance, 117)}
        ELSE IF fault = "print(126)" THEN
            {Out(TRUE, fs, stored, <<UniversalRetriever(all_docs)>>,
                 start \o idxlog \o balance \o <<Ev("Traceback", 126, <<>>)>>)}
        ELSE
            If(fault = "none",
               Out(FALSE, fs, stored, <<UniversalRetriever(all_docs)>>,
                   start \o idxlog \o balance \o
                   <<Ev("UNIVERSAL BOT ONLINE", 126, <<>>)>>))

\* the calls of ingest_documents that may raise; a print raises when stdout
\* cannot take the line (its encoding has no emoji, the pipe is closed); the
\* print of line 95 is inside the try block and is the mute set of the loop
Faults == {"print(77)", "listdir", "print(81)", "OllamaEmbeddings", "Chroma",
           "count", "print(88)", "print(109)", "add_documents", "get",
           "print(116)", "from_texts", "print(126)"}

\* the faults that strike before the loop over the files
BeforeLoop == {"print(77)", "listdir", "print(81)", "OllamaEmbeddings",
               "Chroma", "count", "print(88)"}

\* ------------------------------------------------------- retrieval
\* squared L2 distance, the collection's default metric
Distance(u, v) == SumSeq([i \in 1..Len(u) |-> (u[i] - v[i]) * (u[i] - v[i])])

\* the positions of the Min(k, Len(key)) smallest keys, smallest first; of
\* equal keys the earlier position comes first
Smallest(key, k) ==
    The({[r \in 1..Min(k, Len(d)) |->
              CHOOSE i \in 1..Len(d) :
                  Cardinality({j \in 1..Len(d) :
                      d[j] < d[i] \/ (d[j] = d[i] /\ j < i)}) = r - 1] :
           d \in {key}})

\* chroma.invoke(query): the k nearest entries of the collection with their
\* stored metadata, nearest first
ChromaInvoke(vs, query, k) ==
    The({[r \in DOMAIN top |->
              Doc(vs[top[r]].page_content, vs[top[r]].metadata)] :
           top \in {Smallest([i \in 1..Len(vs) |->
                                Distance(vs[i].embedding, e)], k) :
                       e \in {Embed(query)}}})

\* BM25Okapi.get_scores for document i: the sum over the query words of
\* idf * f * (k1 + 1) / (f + k1 * (1 - b + b * doc_len / avgdl)), where
\* avgdl = total / corpus_size; the quotient is
\* 20 f total / (8 f total + 3 total + 9 doc_len corpus_size)
Score(bm25, i, query) ==
    LET v == bm25.vectorizer
        term(q) ==
            IF q \notin DOMAIN v.idf THEN 0
            ELSE LET f == Occurrences(bm25.docs[i].page_content, q)
                 IN  (v.idf[q] *
                      ((20 * f * v.total * RScale) \div
                       (8 * f * v.total + 3 * v.total
                          + 9 * v.doc_len[i] * v.corpus_size))) \div 10
    IN  The({SumSeq([j \in 1..Len(qw) |-> term(qw[j])]) :
                  qw \in {Split(query)}})

\* the ways to take the k best of the positions in left, best first, when
\* equal scores may come in any order
RECURSIVE Best(_, _, _)
Best(score, left, k) ==
    IF k = 0 \/ left = {} THEN {<<>>}
    ELSE UNION {{<<i>> \o rest : rest \in Best(score, left \ {i}, k - 1)} :
                  i \in {j \in left : \A m \in left : score[m] <= score[j]}}

\* bm25.invoke(query): get_top_n takes the k best-scoring documents, best
\* first; argsort leaves the order of equal scores to the build, so every
\* order of them is a result
Bm25Invoke(bm25, query) ==
    UNION {{[r \in DOMAIN top |-> bm25.docs[top[r]]] :
               top \in Best(score, 1..Len(bm25.docs), bm25.k)} :
           score \in {[i \in 1..Len(bm25.docs) |-> Score(bm25, i, query)]}}

\* a merge that drops from the lexical results a passage the collection
\* has found too
InvokeDeduplicated(retriever, vs, query) ==
    UNION {{semantic \o SelectSeq(lexical, LAMBDA d :
                  \A i \in 1..Len(semantic) :
                      semantic[i].page_content # d.page_content) :
               lexical \in Bm25Invoke(retriever.bm25, query)} :
           semantic \in {ChromaInvoke(vs, query, retriever.k)}}

\* UniversalRetriever.invoke: chroma.invoke(query) + bm25.invoke(query),
\* one result for every order bm25 may give
Invoke(retriever, vs, query) ==
    UNION {{semantic \o lexical :
               lexical \in Bm25Invoke(retriever.bm25, query)} :
           semantic \in {ChromaInvoke(vs, query, retriever.k)}}

\* ------------------------------------------------------- 3. small talk
Greetings == {<<104, 105>>, <<104, 101, 108, 108, 111>>, <<104, 101, 121>>, <<121, 111>>,
              <<103, 111, 111, 100, 32, 109, 111, 114, 110, 105, 110, 103>>, <<103, 111, 111, 100, 32, 97, 102, 116, 101, 114, 110, 111, 111, 110>>}

HowTails == {<<97, 114, 101, 32, 121, 111, 117>>, <<97, 98, 111, 117, 116, 32, 121, 111, 117>>, <<100, 111, 105, 110, 103>>, <<105, 115, 32, 105, 116, 32, 103, 111, 105, 110, 103>>}

\* re.search(r'how.*(are you|about you|doing|is it going)', q)
HowPattern(q) ==
    \E i \in 1..Len(q), t \in HowTails :
        /\ i + 2 <= Len(q)
        /\ SubSeq(q, i, i + 2) = <<104, 111, 119>>
        /\ \E j \in (i + 3)..(Len(q) - Len(t) + 1) :
              /\ SubSeq(q, j, j + Len(t) - 1) = t
              /\ \A m \in (i + 3)..(j - 1) : q[m] # 10

GreetingAnswer == "Hello. I am your Corporate Knowledge Assistant. Please state your inquiry regarding company policy or documentation."
OperationalAnswer == "Systems are fully operational. I am ready to process your query."
NotReadyAnswer == "System initialization incomplete. Please upload source documentation."
LlmAnswer == "chain.ainvoke(c, q, h)"
ServerError == "500 Internal Server Error"

handle_small_talk(query) ==
    LET q == Value(Strip(Lower(query)))
    IN  IF q \in Greetings THEN <<GreetingAnswer>>
        ELSE IF /\ HowPattern(q)
                /\ ~Contains(q, <<112, 114, 111, 99, 101, 115, 115>>)
                /\ ~Contains(q, <<111, 110, 98, 111, 114, 100>>)
             THEN <<OperationalAnswer>>
        ELSE None

\* ------------------------------------------------------- 6. chat logic
UnknownDocument == <<85, 110, 107, 110, 111, 119, 110, 32, 68, 111, 99, 117, 109, 101, 110, 116>>
General == <<71, 101, 110, 101, 114, 97, 108>>

\* the attributes written into one <doc><meta .../><content>...</content></doc>
FormatDoc(d) ==
    [source  |-> Get(d.metadata, "source", UnknownDocument),
     page    |-> Get(d.metadata, "page", 0) + 1,
     section |-> Get(d.metadata, "section", General),
     content |-> ReplaceNewlines(d.page_content)]

\* formatted_context_list
FormatContext(docs) == [i \in 1..Len(docs) |-> FormatDoc(docs[i])]

\* if not ensemble_retriever
NotReady(retriever) == retriever = None

\* req.question of the requests
Questions == {<<32, 72, 101, 108, 108, 111, 13>>, <<104, 111, 119, 32, 105, 115, 32, 116, 104, 101, 32, 111, 110, 98, 111, 114, 100, 105, 110, 103, 32, 112, 114, 111, 99, 101, 115, 115, 32, 100, 111, 105, 110, 103>>}

\* small_talk = handle_small_talk(req.question), for each of the questions
SmallTalk == [question \in Questions |-> handle_small_talk(question)]

\* what query_refiner may hand back as clean_question
Refined == {<<108, 101, 97, 118, 101, 32, 112, 111, 108, 105, 99, 121>>}

\* one request of the handler: where its coroutine waits and the locals it
\* holds there; once it has returned, what it returned
Request(question, pc, kind, clean_question, docs, context, answer, audio) ==
    [question |-> question, pc |-> pc, kind |-> kind,
     clean_question |-> clean_question, docs |-> docs, context |-> context,
     answer |-> answer, audio |-> audio]

\* return {"answer": ..., "audio": ...}: the locals are gone
Returned(question, kind, answer, audio) ==
    Request(question, "returned", kind, <<>>, <<>>, <<>>, answer, audio)

\* an exception leaves the handler
Failed(question) == Returned(question, "error", ServerError, None)

\* generate_audio: the encoded speech, or None when anything in it raised
Audio == {<<"mp3">>, None}

\* ------------------------------------------------------- state machine
\* the directories that hold notes.txt and any of the documents
Directories ==
    UNION {[d \cup {NotesTxt} -> Contents] : d \in SUBSET (Names \ {NotesTxt})}

\* a fresh installation: a corpus directory, an empty db_storage, no process
Init ==
    /\ dir \in {d \in Directories : \A f \in DOMAIN d : d[f] \in Holds(f)}
    /\ store = <<>>
    /\ proc = "stopped"
    /\ files = <<>>
    /\ log = <<>>
    /\ ensemble_retriever = None
    /\ requests = EmptyBag
    /\ chunk = None

\* what a start may meet at its files: the loop runs only over an empty
\* collection and when no earlier call has raised
Met(fs, fault) ==
    IF NeedsIndexing(store) /\ fault \notin BeforeLoop
    THEN Meets(fs) ELSE {Calm}

\* the directory d without the files of gone
Without(d, gone) == [f \in DOMAIN d \ gone |-> d[f]]

\* a start-up that runs ingest_documents again in a serving process
StartAgain ==
    /\ proc \in {"stopped", "serving"}
    /\ \E fs \in Scans(DOMAIN dir) :
          \E r \in Ingest(fs, Calm, "none") :
              /\ ~r.raised
              /\ files' = r.files
              /\ store' = r.store
              /\ log' = log \o r.log
              /\ ensemble_retriever' = r.retriever
    /\ proc' = "serving"
    /\ UNCHANGED <<dir, requests, chunk>>

\* importing the module: ensemble_retriever = None, then ingest_documents()
\* returns and the application starts serving; the files that left the
\* directory during the loop are gone from it
Start ==
    /\ proc = "stopped"
    /\ \E fs \in Scans(DOMAIN dir) : \E io \in Met(fs, "none") :
          \E r \in Ingest(fs, io, "none") :
              /\ ~r.raised
              /\ dir' = Without(dir, io.gone)
              /\ files' = r.files
              /\ store' = r.store
              /\ log' = r.log
              /\ ensemble_retriever' = r.retriever
    /\ proc' = "serving"
    /\ UNCHANGED <<requests, chunk>>

\* the module-level statements before ingest_documents that may raise
ImportFaults == {27, 28}

\* importing the module when os.makedirs or a call of ingest_documents, a
\* print included, raises: the exception leaves the module and the process never serves
StartCrash ==
    /\ proc = "stopped"
    /\ \/ \E line \in ImportFaults :
             /\ log' = <<Ev("Traceback", line, <<>>)>>
             /\ UNCHANGED <<dir, files, store, ensemble_retriever>>
       \/ \E fs \in Scans(DOMAIN dir) : \E fault \in Faults \cup {"none"} :
          \E io \in Met(fs, fault) :
             \E r \in Ingest(fs, io, fault) :
                 /\ r.raised
                 /\ dir' = Without(dir, io.gone)
                 /\ files' = r.files
                 /\ store' = r.store
                 /\ log' = r.log
                 /\ ensemble_retriever' = r.retriever
    /\ proc' = "crashed"
    /\ UNCHANGED <<requests, chunk>>

\* the requests without one r and with one s
Replace(r, s) == (requests (-) SetToBag({r})) (+) SetToBag({s})

\* POST /chat, up to the first await of the handler or to its return
chat(question) ==
    /\ proc = "serving"
    /\ BagCardinality(requests) < MaxRequests
    /\ LET small_talk == SmallTalk[question]
       IN  requests' = requests (+) SetToBag({
               IF small_talk # None THEN
                   Request(question, "generate_audio(small_talk)", "pending",
                           <<>>, <<>>, <<>>, Head(small_talk), None)
               ELSE IF NotReady(ensemble_retriever) THEN
                   Returned(question, "not_ready", NotReadyAnswer, None)
               ELSE
                   Request(question, "query_refiner", "pending",
                           <<>>, <<>>, <<>>, "", None)})
    /\ UNCHANGED <<dir, store, proc, files, log, ensemble_retriever, chunk>>

Chat == \E question \in Questions : chat(question)

\* the refiner answers: print, retrieve, format, and wait for the chain; or
\* the refiner or the print of line 159 raises, or the retrieval does after
\* the print
chat_refined(r) ==
    /\ r.pc = "query_refiner"
    /\ \/ /\ requests' = Replace(r, Failed(r.question))
          /\ log' = log
       \/ \E clean_question \in Refined :
             /\ log' = log \o <<Ev("Refined Search", 159, clean_question)>>
             /\ \/ requests' = Replace(r, Failed(r.question))
                \/ \E docs \in Invoke(Head(ensemble_retriever), store, clean_question) :
                      requests' = Replace(r,
                          Request(r.question, "chain", "pending",
                                  clean_question, docs, FormatContext(docs),
                                  "", None))
    /\ UNCHANGED <<dir, store, proc, files, ensemble_retriever, chunk>>

\* the chain answers and the handler waits for the speech; or the chain raises
chat_answered(r) ==
    /\ r.pc = "chain"
    /\ \/ requests' = Replace(r, Failed(r.question))
       \/ requests' = Replace(r, [r EXCEPT
                          !.pc = "generate_audio(answer)", !.answer = LlmAnswer])
    /\ UNCHANGED <<dir, store, proc, files, log, ensemble_retriever, chunk>>

\* generate_audio is back and the handler returns answer and audio
chat_returned(r) ==
    /\ r.pc \in {"generate_audio(small_talk)", "generate_audio(answer)"}
    /\ \E audio \in Audio :
          requests' = Replace(r,
              Returned(r.question,
                       IF r.pc = "generate_audio(small_talk)"
                       THEN "small_talk" ELSE "answer",
                       r.answer, audio))
    /\ UNCHANGED <<dir, store, proc, files, log, ensemble_retriever, chunk>>

\* the event loop resumes one of the waiting handlers
Resume ==
    /\ proc = "serving"
    /\ \E r \in BagToSet(requests) :
          chat_refined(r) \/ chat_answered(r) \/ chat_returned(r)

\* the process ends; its globals and its output are gone, db_storage stays
Exit ==
    /\ proc \in {"serving", "crashed"}
    /\ proc' = "stopped"
    /\ files' = <<>>
    /\ log' = <<>>
    /\ ensemble_retriever' = None
    /\ requests' = EmptyBag
    /\ UNCHANGED <<dir, store, chunk>>

\* a document is put into source_documents; the directory is read at start-up
\* only (the listing and the loads that follow it), so the changes a process
\* cannot see are taken between two runs
AddFile ==
    /\ proc = "stopped"
    /\ \E f \in Names \ DOMAIN dir : \E holds \in Holds(f) :
          dir' = [g \in DOMAIN dir \cup {f} |-> IF g = f THEN holds ELSE dir[g]]
    /\ UNCHANGED <<store, proc, files, log, ensemble_retriever, requests, chunk>>

\* a document is taken out of source_documents; notes.txt stays
RemoveFile ==
    /\ proc = "stopped"
    /\ \E f \in DOMAIN dir \ {NotesTxt} : dir' = Without(dir, {f})
    /\ UNCHANGED <<store, proc, files, log, ensemble_retriever, requests, chunk>>

Next == Start \/ StartCrash \/ Chat \/ Resume \/ Exit \/ AddFile \/ RemoveFile

Spec == Init /\ [][Next]_vars

\* ------------------------------------------------------- the tagger alone
Digits == <<48, 49, 50, 51, 52, 53, 54, 55, 56, 57>>

\* a line of n characters, no two neighbours equal
Line(n) == [i \in 1..n |-> Digits[(i % 10) + 1]]

Tails == {<<>>, <<10, 98, 111, 100, 121, 32, 116, 101, 120, 116>>}

\* one untagged chunk whose first line has any length up to MaxLineLen
InitTagger ==
    /\ dir = <<>> /\ store = <<>> /\ proc = "stopped" /\ files = <<>>
    /\ log = <<>> /\ ensemble_retriever = None /\ requests = EmptyBag
    /\ \E n \in 0..MaxLineLen, t \in Tails :
          chunk = <<Doc(Line(n) \o t, [page |-> 0])>>

\* one pass of the loop body over the chunk
Tag ==
    /\ chunk # None
    /\ "section" \notin DOMAIN Head(chunk).metadata
    /\ chunk' = <<TagChunk(Head(chunk), HrPdf)>>
    /\ UNCHANGED <<dir, store, proc, files, log, ensemble_retriever, requests>>

NextTagger == Tag

SpecTagger == InitTagger /\ [][NextTagger]_vars
\* ------------------------------------------------------- properties
Ready == ensemble_retriever # None

\* a request has returned with this kind of response
Answered(kind) ==
    \E r \in BagToSet(requests) : r.pc = "returned" /\ r.kind = kind

\* the requests that hold the result of ensemble_retriever.invoke
Retrieved == {r \in BagToSet(requests) :
                 r.pc \in {"chain", "generate_audio(answer)"}}

Sources(vs) == {vs[i].metadata.source : i \in 1..Len(vs)}

PassagesOf(vs, f) == Cardinality({i \in 1..Len(vs) : vs[i].metadata.source = f})

TextCount(docs, t) == Cardinality({i \in 1..Len(docs) : docs[i].page_content = t})

Position(text) == CHOOSE i \in 1..Len(log) : log[i].ev = text

\* the except branch of the loop printed its line for f
ErrorLogged(f) ==
    \E i \in 1..Len(log) : log[i].ev = "Error reading" /\ log[i].file = f

\* what ingest_documents and the import have printed
IngestionLog(l) == SelectSeq(l, LAMBDA e : e.ev # "Refined Search")

\* C1: a step taken while the persisted collection is non-empty, a start of
\* the process included, leaves the collection as it is: count() never grows
\* once it is non-zero, whatever the corpus directory holds by then.
BuildOnce == [][Count(store) # 0 => store' = store]_vars

\* a process started on a non-empty collection after the corpus gained a
\* readable file and lost one
BuildOnceWitness ==
    /\ proc = "serving"
    /\ ~Printed("Indexing Documents")
    /\ Count(store) # 0
    /\ \E f \in Range(files) : ReadFile(f, Calm) # <<>> /\ f \notin Sources(store)
    /\ \E f \in Sources(store) : f \notin Range(files)

\* C2: the documents a request holds after the retrieval are the top-K of
\* the collection followed by a top-K of the lexical index for the refined
\* query, each in its own order; the lengths add up and a passage found by
\* both is there at least twice.
Concatenation ==
    \A r \in Retrieved :
        \E v \in {ChromaInvoke(store, r.clean_question, K)} :
        \E l \in Bm25Invoke(Head(ensemble_retriever).bm25, r.clean_question) :
        \E docs \in {r.docs} :
            /\ Len(docs) = Len(v) + Len(l)
            /\ SubSeq(docs, 1, Len(v)) = v
            /\ SubSeq(docs, Len(v) + 1, Len(docs)) = l
            /\ \A i \in DOMAIN v, j \in DOMAIN l :
                  v[i].page_content = l[j].page_content =>
                      TextCount(docs, v[i].page_content) >= 2

\* a retrieval over more than K passages in which one passage was found by
\* both strategies
ConcatenationWitness ==
    \E r \in Retrieved :
        /\ Count(store) > K
        /\ Len(r.docs) = K + K
        /\ \E i \in 1..K, j \in (K + 1)..(K + K) :
              r.docs[i].page_content = r.docs[j].page_content

\* C3: a process whose listing found no PDF file has no retriever, whatever
\* the collection holds; none of its requests reaches the retrieval, and
\* every returned request that is not small talk got the
\* initialization-incomplete message.
EmptyCorpusNeverReady ==
    (proc = "serving" /\ files = <<>>) =>
        /\ ~Ready
        /\ Printed("No PDFs found")
        /\ ~Printed("Refined Search")
        /\ \A r \in BagToSet(requests) :
              /\ r.pc \in {"generate_audio(small_talk)", "returned"}
              /\ r.docs = <<>>
              /\ SmallTalk[r.question] = None =>
                    /\ r.kind = "not_ready"
                    /\ r.answer = NotReadyAnswer

\* no PDF file beside a populated collection, and a request turned away
EmptyCorpusWitness ==
    /\ proc = "serving"
    /\ files = <<>>
    /\ NotesTxt \in DOMAIN dir
    /\ Count(store) # 0
    /\ Answered("not_ready")

\* the passages the loop gets out of f when nothing raises: those of a
\* file that is there and has chunks
PassageCount(f) ==
    IF f \in DOMAIN dir /\ dir[f] = "chunks" THEN Len(RawChunks(f)) ELSE 0

\* C4: the failure of one document never ends the pass and costs no other
\* document its passages: a start-up does not die in the except branch of
\* the loop, and after a pass that indexed every listed file that is there
\* and can be parsed has all of its passages in the collection, every other
\* listed file has an error line and no passage, count() is the sum over
\* the readable files, and the pass went on to the lexical step.
FailuresContained ==
    /\ proc = "crashed" => Last(log).line # 109
    /\ (proc = "serving" /\ Printed("Indexing Documents")) =>
          /\ \A f \in Range(files) :
                /\ PassagesOf(store, f) = PassageCount(f)
                /\ (f \notin DOMAIN dir \/ dir[f] = "corrupt") => ErrorLogged(f)
          /\ Count(store) =
                SumSeq([i \in 1..Len(files) |-> PassageCount(files[i])])
          /\ Count(store) # 0 => Printed("Balancing Search Engine")

\* C5: every document handed to the answer generation has the source, page
\* and section of a passage of the collection with the same text, and never
\* the placeholder source.
ProvenancePreserved ==
    \A r \in Retrieved :
        \A i \in 1..Len(r.docs) :
            /\ r.context[i].source # UnknownDocument
            /\ \E m \in 1..Len(store) :
                  /\ store[m].page_content = r.docs[i].page_content
                  /\ store[m].metadata.source = r.context[i].source
                  /\ store[m].metadata.page + 1 = r.context[i].page
                  /\ store[m].metadata.section = r.context[i].section

\* C6: within one process ingest_documents runs once and before any request;
\* the retriever, once assigned, stays as it is until the process ends and
\* nothing assigns it or prints an ingestion line while the process serves;
\* a retrieval is only made with the retriever set, and the not-ready
\* response carries no document.
OneShot ==
    /\ [](Cardinality({i \in 1..Len(log) : log[i].ev = "Loading Documents"}) <= 1)
    /\ [](requests # EmptyBag => proc = "serving" /\ Printed("Loading Documents"))
    /\ []((Retrieved # {} \/ Answered("answer") \/ Printed("Refined Search"))
              => Ready)
    /\ [](\A r \in BagToSet(requests) :
              r.kind = "not_ready" => ~Ready /\ r.docs = <<>>)
    /\ [][Ready => (ensemble_retriever' = ensemble_retriever \/ proc' = "stopped")]_vars
    /\ [][(proc = "serving" /\ proc' = "serving") =>
              /\ ensemble_retriever' = ensemble_retriever
              /\ IngestionLog(log') = IngestionLog(log)
              /\ store' = store]_vars

\* a ready process that has answered one request and holds the documents
\* retrieved for another
OneShotWitness ==
    /\ proc = "serving"
    /\ Ready
    /\ Answered("answer")
    /\ \E r \in Retrieved : r.docs # <<>>

\* C7: the section is the first line when that has more than 3 and
\* fewer than 50 characters, and the default label otherwise.
SectionDefaultFromFifty ==
    (chunk # None /\ "section" \in DOMAIN Head(chunk).metadata) =>
        LET L == FirstLine(Head(chunk).page_content)
        IN  Head(chunk).metadata.section =
                IF Len(L) > 3 /\ Len(L) < 50 THEN L ELSE GeneralSection

\* C9: while the retriever is set, the lexical index holds every text as
\* often as the collection does.
SameSnapshot ==
    Ready =>
        \E bm25 \in {Head(ensemble_retriever).bm25.docs} :
            /\ Len(bm25) = Count(store)
            /\ \A i \in 1..Len(store) :
                  TextCount(bm25, store[i].page_content) =
                  TextCount(store, store[i].page_content)

\* a restart that skipped indexing, on more than K passages, with a corpus
\* directory that no longer holds what was indexed
SameSnapshotWitness ==
    /\ Ready
    /\ proc = "serving"
    /\ ~Printed("Indexing Documents")
    /\ Count(store) > K
    /\ Sources(store) # {f \in DOMAIN dir : EndsWith(f, DotPdf)}

\* C10: a process that found a PDF file and came through ingest_documents
\* has a retriever exactly when the collection is non-empty; then the
\* lexical step and the online line come after the indexing line, and with
\* an empty collection every request that is not small talk is turned away.
ReadyIffNonEmpty ==
    (proc = "serving" /\ files # <<>>) =>
        /\ Ready <=> Count(store) # 0
        /\ Count(store) # 0 =>
              /\ Printed("Balancing Search Engine")
              /\ Printed("UNIVERSAL BOT ONLINE")
              /\ Position("Balancing Search Engine") < Position("UNIVERSAL BOT ONLINE")
              /\ Printed("Indexing Documents") =>
                    Position("Indexing Documents") < Position("Balancing Search Engine")
        /\ Count(store) = 0 =>
              /\ Printed("Indexing Documents")
              /\ \A r \in BagToSet(requests) :
                    /\ r.pc \in {"generate_audio(small_talk)", "returned"}
                    /\ r.kind \in {"pending", "small_talk", "not_ready"}

\* a pass over two files, one without text and one whose print at line 95
\* raised: indexing added nothing and a request was turned away
ReadyIffNonEmptyWitness ==
    /\ proc = "serving"
    /\ Printed("Indexing Documents")
    /\ \E f, g \in Range(files) :
          /\ f \in DOMAIN dir /\ dir[f] = "blank" /\ ~ErrorLogged(f)
          /\ g \in DOMAIN dir /\ dir[g] = "chunks" /\ ErrorLogged(g)
    /\ Count(store) = 0
    /\ Answered("not_ready")
====
